---- MODULE Spec2Model ----
(***************************************************************************)
(* State-machine model of the coffee-shop backend: the relational store    *)
(* (orders, admin_users), the module-level maps of main.py                 *)
(* (active_payment_checks, user_carts), the background payment simulator,  *)
(* signed admin tokens, and the HTTP handlers of main.py and admin_api.py  *)
(* together with the crud.py operations they call.                         *)
(*                                                                         *)
(* Every handler is one action; the response it sends is recorded in resp. *)
(* Nine specifications share the variables: Spec (payments and the         *)
(* simulator), SpecOrders (order creation and the order listings),         *)
(* SpecAdmin (admin accounts, tokens, role gating), SpecProducts (product  *)
(* listings), SpecCart (session carts and order submission), SpecStartup   *)
(* (restarts and the seeded accounts), SpecHistory (writes to order and    *)
(* product rows), SpecTokens (tokens under email and role changes) and     *)
(* SpecCartOps (every session-cart operation).                             *)
(***************************************************************************)
EXTENDS Naturals, Integers, Sequences, FiniteSets, Bags, TLC

VARIABLES orders, active_payment_checks, tasks, user_carts,
          admin_users, tokens, now, resp, products

vars == <<orders, active_payment_checks, tasks, user_carts,
          admin_users, tokens, now, resp, products>>

(***************************************************************************)
(* Bounds of the model.                                                    *)
(***************************************************************************)
\* number of distinct random suffixes uuid4().hex[:8] can take in the model
MaxSuffix == 3
\* coroutines (simulator runs, suspended requests) alive at the same time
MaxTasks == 2
\* the clock stops here (days)
MaxClock == 1
\* tokens issued and still remembered by the model
MaxTokens == 2
\* the admin ids the requests name
MaxAdmins == 3
\* the quantity a cart entry may reach
MaxQuantity == 2
\* rows the coffee_products table may hold
MaxProducts == 3

(***************************************************************************)
(* Program constants.                                                      *)
(***************************************************************************)
\* ACCESS_TOKEN_EXPIRE_MINUTES = 60 * 24, in days
ACCESS_TOKEN_EXPIRE_DAYS == 1

SECRET_KEY == "09d25e09"
SALT == "brewhaven-coffee-shop-salt"

None == "None"
NoCredentials == [sub |-> None, exp |-> 0, key |-> None]

(***************************************************************************)
(* Values.                                                                 *)
(***************************************************************************)
\* f"BH{datetime.now().strftime('%Y%m%d')}{uuid.uuid4().hex[:8].upper()}"
OrderNumberOf(day, suffix) == <<"BH", day, suffix>>

\* the order the store held when the process started (startup inserts its
\* sample orders only into an empty table, and that insert names columns
\* the table lacks, so a started process has found at least one order)
SeededOrderNumber == OrderNumberOf(0, 0)

\* the numbers create_order can draw today: a draw may repeat a stored one
GeneratedOrderNumbers == {OrderNumberOf(0, s) : s \in 0..MaxSuffix}

\* a number no order has
UnknownOrderNumber == OrderNumberOf(1, 0)

\* the order numbers the payment requests name: one stored, one not
NamedOrderNumbers == {SeededOrderNumber, UnknownOrderNumber}
OrderNumbers == GeneratedOrderNumbers \cup {UnknownOrderNumber}

\* the fields of schemas.OrderCreate (OrderBase)
OrderCreateFields == {"customer_name", "phone_number", "delivery_address",
                      "items", "total_amount", "currency", "notes"}

\* the attributes of the crud module that the handlers look up
\* crud.py with the update_order_status function main.py calls
CrudWithUpdateOrderStatus ==
    {"create_order", "get_order_by_number", "get_orders",
     "update_order", "update_order_payment_status", "update_order_status",
     "authenticate_admin", "create_admin_user", "get_admin_users",
     "get_admin_user", "update_admin_user", "delete_admin_user",
     "get_dashboard_stats"}

CrudFunctions == {"create_order", "get_order_by_number", "get_orders",
                  "update_order", "update_order_payment_status",
                  "authenticate_admin", "create_admin_user", "get_admin_users",
                  "get_admin_user", "update_admin_user", "delete_admin_user",
                  "get_dashboard_stats"}

\* the columns of the orders table (models.Order)
OrderColumns == {"id", "order_number", "customer_name", "phone_number",
                 "delivery_address", "items", "total_amount", "currency",
                 "status", "khqr_md5", "payment_status", "payment_method",
                 "notes", "admin_notes", "created_at", "updated_at"}

\* str(e) of the exceptions the handlers can meet
ExcCustomerPhone == "'OrderCreate' object has no attribute 'customer_phone'"
ExcPhoneRequired == "validation error for OrderCreate: phone_number field required"
ExcOrderStatusAttr == "'dict' object has no attribute 'order_status'"
ExcNoUpdateOrderStatus == "module 'crud' has no attribute 'update_order_status'"
ExcIntegrityOrder == "UNIQUE constraint failed: orders.order_number"
ExcIntegrityEmail == "UNIQUE constraint failed: admin_users.email"
ExcNoSuchColumn == "no such column: order_status"
ExcDictId == "'dict' object has no attribute 'id'"
ExcJWTError == "module 'jwt' has no attribute 'JWTError'"
ExcHttp404 == "404: Order not found"

\* a recorded response: the handler, the credential and argument of the
\* request, the status code, the body's message, the exception text the body
\* carries (None when it carries none), the unexpected exception the handler
\* met (None when it met none), what it printed to the server log (None
\* when nothing), the payload, and whether the request changed the store
Response(op, cred, arg, code, detail, leak, raised, logged, data, changed) ==
    [op |-> op, cred |-> cred, arg |-> arg, code |-> code, detail |-> detail,
     leak |-> leak, raised |-> raised, logged |-> logged, data |-> data,
     changed |-> changed]

(***************************************************************************)
(* The store: orders.                                                      *)
(***************************************************************************)
StoredNumbers(os) == {os[i].order_number : i \in 1..Len(os)}

\* crud.get_order_by_number: the row's id, 0 when there is none
OrderIdOf(os, n) ==
    IF n \in StoredNumbers(os)
    THEN CHOOSE i \in 1..Len(os) : os[i].order_number = n
    ELSE 0

\* the row itself; callers test OrderIdOf first ("if db_order is None")
get_order_by_number(os, n) == os[OrderIdOf(os, n)]

\* a table without the unique index takes any number
AnyOrderNumber(os, n) == TRUE

\* models.Order: order_number = Column(String(50), unique=True): an insert
\* of a number the table already holds raises IntegrityError
OrderNumberUnique(os, n) == n \notin StoredNumbers(os)

\* the items of an order (schemas.OrderItem), stored as JSON in the row
OrderItems == <<[product_id |-> 1, product_name |-> "Latte", quantity |-> 1, price |-> 3]>>

NewOrderRow(n) ==
    [order_number |-> n, status |-> "pending", payment_status |-> "pending",
     khqr_md5 |-> None, payment_method |-> "khqr", admin_notes |-> None,
     customer_name |-> "customer", items |-> OrderItems, total_amount |-> 3]

\* crud.create_order: the table after the insert (unchanged when the unique
\* index refuses the row)
create_order(os, n) ==
    IF OrderNumberUnique(os, n) THEN Append(os, NewOrderRow(n)) ELSE os

\* crud.update_order_payment_status: the table after the update; khqr_md5 is
\* written only when one is given
update_order_payment_status(os, n, payment_status, khqr_md5) ==
    IF OrderIdOf(os, n) = 0 THEN os
    ELSE [os EXCEPT ![OrderIdOf(os, n)] =
            [@ EXCEPT !.payment_status = payment_status,
                      !.khqr_md5 = IF khqr_md5 # None THEN khqr_md5 ELSE @]]

\* newest first (rows are appended in creation order)
RECURSIVE Reverse(_)
Reverse(s) == IF s = <<>> THEN <<>> ELSE Append(Reverse(Tail(s)), Head(s))

\* .offset(skip).limit(limit) of a result list
Window(rows, skip, limit) ==
    SubSeq(rows, skip + 1, IF skip + limit < Len(rows) THEN skip + limit ELSE Len(rows))

\* crud.get_orders: order_by(created_at.desc()), then the window
get_orders(os, skip, limit) == Window(Reverse(os), skip, limit)

\* crud.get_orders_by_status: the rows with that status, newest first
get_orders_by_status(os, status) ==
    LET HasStatus(o) == o.status = status
    IN  Reverse(SelectSeq(os, HasStatus))

\* crud.update_order: values(**update_data) on the row with that id (ids are
\* the positions: no order row is ever deleted)
update_order(os, order_id, update_data) ==
    [os EXCEPT ![order_id] =
        [f \in DOMAIN os[order_id] |->
            IF f \in DOMAIN update_data THEN update_data[f] ELSE os[order_id][f]]]

\* schemas.OrderUpdate with a total_amount field
OrderUpdateFieldsWithTotal == {"status", "payment_status", "admin_notes", "total_amount"}

\* the fields of schemas.OrderUpdate
OrderUpdateFields == {"status", "payment_status", "admin_notes"}

\* schemas.OrderUpdate parsed from a request body and dumped with
\* exclude_unset: fields the schema does not have are dropped
OrderUpdate(body) == [f \in DOMAIN body \cap OrderUpdateFields |-> body[f]]

(***************************************************************************)
(* Admin accounts and tokens.                                              *)
(***************************************************************************)
\* a hash that does not depend on the password
SaltOnlyHash(password) == <<"sha256", "", SALT>>

\* crud.get_password_hash: sha256 of password + SALT, as a tagged value
get_password_hash(password) == <<"sha256", password, SALT>>

verify_password(plain_password, hashed_password) ==
    get_password_hash(plain_password) = hashed_password

\* crud.get_admin_by_email: the rows with that email (none, or one: the
\* column is unique)
AdminsByEmail(as, email) == {a \in as : a.email = email}

get_admin_by_email(as, email) == CHOOSE a \in as : a.email = email

\* crud.create_access_token: subject, expiry, signed with SECRET_KEY
create_access_token(email, t) ==
    [sub |-> email, exp |-> t + ACCESS_TOKEN_EXPIRE_DAYS, key |-> SECRET_KEY]

\* the token admin_login hands out for the row it authenticated; issued_to
\* is no claim of the token: it records the account of the login, for the
\* properties that follow a token through later changes of admin_users
IssuedToken(admin, t) ==
    [issued_to |-> admin.id] @@ create_access_token(admin.email, t)

\* a token signed with another key
ForgedToken == [sub |-> "admin@gmail.com", exp |-> MaxClock + 2, key |-> "forged"]

Credentials == {NoCredentials, ForgedToken} \cup tokens

\* the outcomes of dependencies.get_current_admin for a credential: the
\* status code raised (200 when the admin is returned), the admin, and the
\* exception text that reaches the global handler
AuthOutcome(code, admin, raised) == [code |-> code, admin |-> admin, raised |-> raised]

\* an HTTPException raised inside the try block of get_current_admin meets
\* "except jwt.JWTError": with a jwt module that has no JWTError the lookup
\* raises AttributeError (500 from the global handler); with one that has it
\* the last clause turns the exception into a 401
SwallowedInTry == {AuthOutcome(500, None, ExcJWTError), AuthOutcome(401, None, None)}

get_current_admin(cred) ==
    IF cred = NoCredentials
    THEN {AuthOutcome(403, None, None), AuthOutcome(401, None, None)}
    ELSE IF cred.key # SECRET_KEY
    THEN SwallowedInTry
    ELSE IF now >= cred.exp
    THEN {AuthOutcome(401, None, None)}
    ELSE IF AdminsByEmail(admin_users, cred.sub) = {}
    THEN SwallowedInTry
    ELSE IF ~get_admin_by_email(admin_users, cred.sub).is_active
    THEN SwallowedInTry
    ELSE {AuthOutcome(200, get_admin_by_email(admin_users, cred.sub), None)}

\* dependencies.get_current_super_admin
get_current_super_admin(cred) ==
    {IF o.code = 200 /\ o.admin.role # "super_admin"
     THEN AuthOutcome(403, None, None) ELSE o : o \in get_current_admin(cred)}

\* what the client is sent when a dependency refuses the request
Refusal(op, cred, arg, o) ==
    Response(op, cred, arg, o.code,
             IF o.raised # None THEN "Internal server error occurred" ELSE "refused",
             o.raised, o.raised, o.raised, None, FALSE)

(***************************************************************************)
(* Initial state: the process has started on a store that already holds    *)
(* the two seeded admins and one order.                                    *)
(***************************************************************************)
DefaultAdmin ==
    [id |-> 1, email |-> "admin@gmail.com",
     hashed_password |-> get_password_hash("11112222"),
     role |-> "super_admin", is_active |-> TRUE]

DemoAdmin ==
    [id |-> 2, email |-> "demo@gmail.com",
     hashed_password |-> get_password_hash("demo1234"),
     role |-> "manager", is_active |-> TRUE]

\* the coffee_products table in id order: the two sample products, both
\* available
ProductRow(product_id, is_available) ==
    [id |-> product_id, is_available |-> is_available]

SampleProducts == <<ProductRow(1, TRUE), ProductRow(2, TRUE)>>

Init ==
    /\ orders = <<NewOrderRow(SeededOrderNumber)>>
    /\ active_payment_checks = [n \in {} |-> None]
    /\ tasks = EmptyBag
    /\ user_carts = [s \in {} |-> <<>>]
    /\ admin_users = {DefaultAdmin, DemoAdmin}
    /\ products = SampleProducts
    /\ tokens = {}
    /\ now = 0
    /\ resp = Response("startup", NoCredentials, None, 200, "ok", None, None, None,
                       None, FALSE)

(***************************************************************************)
(* Helpers of the handlers.                                                *)
(***************************************************************************)
\* main.global_exception_handler: prints the exception; 500, a fixed
\* message, and "detail": str(exc)
global_exception_handler(op, cred, arg, exc, changed) ==
    Response(op, cred, arg, 500, "Internal server error occurred", exc, exc, exc,
             None, changed)

\* background_tasks.add_task(check_payment_status_demo, order_number); tasks
\* is the bag of simulator runs queued or running
Task(n, pc) == [order_number |-> n, pc |-> pc]

add_task(n) == tasks (+) SetToBag({Task(n, "queued")})

\* the run t moves on to pc (or ends, with pc = "done")
MoveTask(t, pc) ==
    IF pc = "done" THEN tasks (-) SetToBag({t})
    ELSE (tasks (-) SetToBag({t})) (+) SetToBag({Task(t.order_number, pc)})

\* active_payment_checks[order_number]['status'] = status
SetCheck(checks, n, status) ==
    [k \in DOMAIN checks \cup {n} |-> IF k = n THEN status ELSE checks[k]]

\* "if order_number in active_payment_checks: ...['status'] = status"
SetCheckIfPresent(checks, n, status) ==
    IF n \in DOMAIN checks THEN SetCheck(checks, n, status) ELSE checks

\* del user_carts[session_id]
DelCart(carts, session) == [k \in DOMAIN carts \ {session} |-> carts[k]]

Sessions == {"s1", "s2"}

\* the skip, limit and status parameters the listing requests carry
Skips == 0..1
Limits == 1..2
ListingStatuses == {None, "pending", "completed"}

\* the keyword arguments frontend_checkout passes to schemas.OrderCreate, and
\* the fields OrderCreate requires
CheckoutKwargs == {"customer_name", "customer_phone", "customer_email",
                   "delivery_address", "total_amount", "currency", "items",
                   "payment_method", "notes"}
OrderCreateRequired == {"customer_name", "phone_number", "items", "total_amount"}

(***************************************************************************)
(* Session carts (the module-level map user_carts of main.py).             *)
(***************************************************************************)
\* the items of a session's cart as GET /cart/session/{session_id} lists
\* them: [] for a session the map does not hold
SessionCartItems(carts, session) ==
    IF session \in DOMAIN carts THEN carts[session] ELSE <<>>

\* user_carts[session_id] = items
SetCart(carts, session, items) ==
    [k \in DOMAIN carts \cup {session} |-> IF k = session THEN items ELSE carts[k]]

\* the bodies of POST /cart/session/{session_id}/add: product_id 0 stands
\* for a body whose product_id is missing or falsy
CartItemBodies ==
    {[product_id |-> p, name |-> "Latte", price |-> 3, quantity |-> 1] : p \in 0..2}

\* the entry add_to_session_cart appends
NewCartItem(items, item) ==
    [id |-> Len(items) + 1, product_id |-> item.product_id, price |-> item.price,
     quantity |-> item.quantity, item_total |-> item.price * item.quantity]

\* the position of the entry with that product_id, 0 when there is none
CartIndexOfProduct(items, product_id) ==
    IF \E i \in 1..Len(items) : items[i].product_id = product_id
    THEN CHOOSE i \in 1..Len(items) :
            /\ items[i].product_id = product_id
            /\ \A j \in 1..(i - 1) : items[j].product_id # product_id
    ELSE 0

\* main.get_session_cart
get_session_cart(cred, session) ==
    /\ resp' = Response("get_session_cart", cred, session, 200, "ok", None, None, None,
                        SessionCartItems(user_carts, session), FALSE)
    /\ UNCHANGED <<products, orders, active_payment_checks, tasks, user_carts, admin_users,
                   tokens, now>>

\* main.add_to_session_cart: the session's key is created before the body is
\* validated; an entry with the product_id gets the quantity added, otherwise
\* a new entry is appended
add_to_session_cart(cred, session, item) ==
    /\ IF item.product_id = 0 \/ item.price = 0
       THEN /\ user_carts' = SetCart(user_carts, session,
                                     SessionCartItems(user_carts, session))
            /\ resp' = Response("add_to_session_cart", cred, session, 400,
                                "Product ID, name, and price are required",
                                None, None, None, None, FALSE)
       ELSE IF CartIndexOfProduct(SessionCartItems(user_carts, session),
                                  item.product_id) # 0
       THEN LET items == SessionCartItems(user_carts, session)
                i == CartIndexOfProduct(items, item.product_id)
                q == items[i].quantity + item.quantity
            IN  /\ q <= MaxQuantity
                /\ user_carts' = SetCart(user_carts, session,
                                   [items EXCEPT ![i] = [@ EXCEPT !.quantity = q,
                                                          !.item_total = q * items[i].price]])
                /\ resp' = Response("add_to_session_cart", cred, session, 200,
                                    "quantity_updated", None, None, None,
                                    items[i].id, FALSE)
       ELSE LET items == SessionCartItems(user_carts, session)
            IN  /\ user_carts' = SetCart(user_carts, session,
                                         Append(items, NewCartItem(items, item)))
                /\ resp' = Response("add_to_session_cart", cred, session, 200,
                                    "item_added", None, None, None,
                                    Len(items) + 1, FALSE)
    /\ UNCHANGED <<products, orders, active_payment_checks, tasks, admin_users, tokens, now>>

\* the position of the first entry with that id, 0 when there is none
CartIndexOfId(items, item_id) ==
    IF \E i \in 1..Len(items) : items[i].id = item_id
    THEN CHOOSE i \in 1..Len(items) :
            /\ items[i].id = item_id
            /\ \A j \in 1..(i - 1) : items[j].id # item_id
    ELSE 0

\* [i for i in user_carts[session_id] if i['id'] != item_id]
WithoutItemId(items, item_id) ==
    LET Other(i) == i.id # item_id IN SelectSeq(items, Other)

\* the quantities PUT /cart/session/{session_id}/item/{item_id} is sent
UpdateQuantities == 0..MaxQuantity

\* main.update_cart_item_quantity: 404 for a session the map does not hold
\* and for an id no entry has; a quantity <= 0 removes the entries with the
\* id, any other is written into the first entry with the id
update_cart_item_quantity(cred, session, item_id, quantity) ==
    /\ IF session \notin DOMAIN user_carts
       THEN /\ user_carts' = user_carts
            /\ resp' = Response("update_cart_item_quantity", cred, session, 404,
                                "Session not found", None, None, None, None, FALSE)
       ELSE IF CartIndexOfId(user_carts[session], item_id) = 0
       THEN /\ user_carts' = user_carts
            /\ resp' = Response("update_cart_item_quantity", cred, session, 404,
                                "Item not found in cart", None, None, None, None, FALSE)
       ELSE IF quantity <= 0
       THEN /\ user_carts' = SetCart(user_carts, session,
                                     WithoutItemId(user_carts[session], item_id))
            /\ resp' = Response("update_cart_item_quantity", cred, session, 200,
                                "item_removed", None, None, None, item_id, FALSE)
       ELSE LET items == user_carts[session]
                i == CartIndexOfId(items, item_id)
            IN  /\ user_carts' = SetCart(user_carts, session,
                                   [items EXCEPT ![i] =
                                       [@ EXCEPT !.quantity = quantity,
                                                 !.item_total = items[i].price * quantity]])
                /\ resp' = Response("update_cart_item_quantity", cred, session, 200,
                                    "quantity_updated", None, None, None, item_id, FALSE)
    /\ UNCHANGED <<products, orders, active_payment_checks, tasks, admin_users, tokens, now>>

\* main.remove_from_session_cart: the entries with the id are dropped; 404
\* when the session is not in the map or the list did not get shorter
remove_from_session_cart(cred, session, item_id) ==
    /\ IF session \in DOMAIN user_carts
          /\ Len(WithoutItemId(user_carts[session], item_id)) < Len(user_carts[session])
       THEN /\ user_carts' = SetCart(user_carts, session,
                                     WithoutItemId(user_carts[session], item_id))
            /\ resp' = Response("remove_from_session_cart", cred, session, 200,
                                "item_removed", None, None, None, item_id, FALSE)
       ELSE /\ user_carts' = user_carts
            /\ resp' = Response("remove_from_session_cart", cred, session, 404,
                                "Item not found", None, None, None, None, FALSE)
    /\ UNCHANGED <<products, orders, active_payment_checks, tasks, admin_users, tokens, now>>

\* main.clear_session_cart
clear_session_cart(cred, session) ==
    /\ IF session \in DOMAIN user_carts
       THEN /\ user_carts' = SetCart(user_carts, session, <<>>)
            /\ resp' = Response("clear_session_cart", cred, session, 200,
                                "cart_cleared", None, None, None, None, FALSE)
       ELSE /\ user_carts' = user_carts
            /\ resp' = Response("clear_session_cart", cred, session, 404,
                                "Session not found", None, None, None, None, FALSE)
    /\ UNCHANGED <<products, orders, active_payment_checks, tasks, admin_users, tokens, now>>

\* the entry sync_session_cart builds of the body at position idx + 1
SyncedCartItem(idx, item) ==
    [id |-> idx + 1, product_id |-> item.product_id, price |-> item.price,
     quantity |-> item.quantity, item_total |-> item.price * item.quantity]

\* the list sync_session_cart builds: the bodies with a product_id and a
\* price, in order, each with the id of its position in the request
RECURSIVE SyncedItems(_, _)
SyncedItems(items, idx) ==
    IF idx >= Len(items) THEN <<>>
    ELSE IF items[idx + 1].product_id = 0 \/ items[idx + 1].price = 0
    THEN SyncedItems(items, idx + 1)
    ELSE <<SyncedCartItem(idx, items[idx + 1])>> \o SyncedItems(items, idx + 1)

\* main.sync_session_cart: the session's list is replaced
sync_session_cart(cred, session, items) ==
    /\ user_carts' = SetCart(user_carts, session, SyncedItems(items, 0))
    /\ resp' = Response("sync_session_cart", cred, session, 200, "cart_synced",
                        None, None, None, Len(SyncedItems(items, 0)), FALSE)
    /\ UNCHANGED <<products, orders, active_payment_checks, tasks, admin_users, tokens, now>>

(***************************************************************************)
(* Order operations.                                                       *)
(***************************************************************************)
\* crud.create_order called as the domain operation createOrder: the number
\* is drawn, the row inserted and read back
crud_create_order(n) ==
    /\ orders' = create_order(orders, n)
    /\ resp' = IF OrderNumberUnique(orders, n)
               THEN Response("crud_create_order", NoCredentials, n, 200, "ok", None, None,
                             None, NewOrderRow(n), TRUE)
               ELSE Response("crud_create_order", NoCredentials, n, 500, "IntegrityError",
                             None, ExcIntegrityOrder, None, None, FALSE)
    /\ UNCHANGED <<products, active_payment_checks, tasks, user_carts, admin_users, tokens, now>>

\* main.create_order (POST /api/v1/orders/): the first statements print
\* order.customer_phone and order.customer_email, which OrderCreate lacks;
\* "except Exception" prints the error and answers 500 with str(e)
main_create_order(cred, session, n) ==
    IF ~({"customer_phone", "customer_email"} \subseteq OrderCreateFields)
    THEN /\ resp' = Response("create_order", cred, None, 500, "Failed to create order: ",
                             ExcCustomerPhone, ExcCustomerPhone, ExcCustomerPhone,
                             None, FALSE)
         /\ UNCHANGED <<products, orders, active_payment_checks, tasks, user_carts,
                        admin_users, tokens, now>>
    ELSE IF ~OrderNumberUnique(orders, n)
    THEN /\ resp' = Response("create_order", cred, None, 500, "Failed to create order: ",
                             ExcIntegrityOrder, ExcIntegrityOrder, ExcIntegrityOrder,
                             None, FALSE)
         /\ UNCHANGED <<products, orders, active_payment_checks, tasks, user_carts,
                        admin_users, tokens, now>>
    ELSE /\ BagCardinality(tasks) < MaxTasks
         /\ orders' = create_order(orders, n)
         /\ user_carts' = DelCart(user_carts, session)
         /\ tasks' = add_task(n)
         /\ resp' = Response("create_order", cred, n, 200, "ok", None, None, None,
                             NewOrderRow(n), TRUE)
         /\ UNCHANGED <<products, active_payment_checks, admin_users, tokens, now>>

\* main.frontend_checkout: OrderCreate(...) is built without phone_number;
\* every exception is printed and becomes a 200 body
\* {"success": False, "message": f"Checkout failed: {str(e)}"}
frontend_checkout(cred, n) ==
    IF ~(OrderCreateRequired \subseteq CheckoutKwargs)
    THEN /\ resp' = Response("frontend_checkout", cred, None, 200, "Checkout failed: ",
                             ExcPhoneRequired, ExcPhoneRequired, ExcPhoneRequired,
                             FALSE, FALSE)
         /\ UNCHANGED <<products, orders, active_payment_checks, tasks, user_carts,
                        admin_users, tokens, now>>
    ELSE IF ~OrderNumberUnique(orders, n)
    THEN /\ resp' = Response("frontend_checkout", cred, None, 200, "Checkout failed: ",
                             ExcIntegrityOrder, ExcIntegrityOrder, ExcIntegrityOrder,
                             FALSE, FALSE)
         /\ UNCHANGED <<products, orders, active_payment_checks, tasks, user_carts,
                        admin_users, tokens, now>>
    ELSE /\ orders' = create_order(orders, n)
         /\ resp' = Response("frontend_checkout", cred, n, 200, "Order created successfully",
                             None, None, None, TRUE, TRUE)
         /\ UNCHANGED <<products, active_payment_checks, tasks, user_carts, admin_users,
                        tokens, now>>

\* main.read_order (GET /api/v1/orders/{order_number})
read_order(cred, n) ==
    /\ resp' = IF OrderIdOf(orders, n) = 0
               THEN Response("read_order", cred, n, 404, "Order not found", None, None,
                             None, None, FALSE)
               ELSE Response("read_order", cred, n, 200, "ok", None, None, None,
                             get_order_by_number(orders, n), FALSE)
    /\ UNCHANGED <<products, orders, active_payment_checks, tasks, user_carts, admin_users,
                   tokens, now>>

\* main.read_orders (GET /api/v1/orders/): no credential is asked for; the
\* window is taken first, then the status filter reads order.order_status of
\* a dict, and the AttributeError reaches the global handler
read_orders(cred, skip, limit, status) ==
    /\ resp' = IF status # None /\ get_orders(orders, skip, limit) # <<>>
               THEN global_exception_handler("read_orders", cred, <<skip, limit, status>>,
                                             ExcOrderStatusAttr, FALSE)
               ELSE Response("read_orders", cred, <<skip, limit, status>>, 200, "ok",
                             None, None, None, get_orders(orders, skip, limit), FALSE)
    /\ UNCHANGED <<products, orders, active_payment_checks, tasks, user_carts, admin_users,
                   tokens, now>>

\* admin_api.admin_read_orders: behind get_current_admin; with a status, the
\* rows of crud.get_orders_by_status sliced [skip:skip+limit]
admin_read_orders(cred, skip, limit, status) ==
    \E o \in get_current_admin(cred) :
        /\ resp' = IF o.code # 200
                   THEN Refusal("admin_read_orders", cred, <<skip, limit, status>>, o)
                   ELSE Response("admin_read_orders", cred, <<skip, limit, status>>, 200,
                                 "ok", None, None, None,
                                 IF status # None
                                 THEN Window(get_orders_by_status(orders, status),
                                             skip, limit)
                                 ELSE get_orders(orders, skip, limit),
                                 FALSE)
        /\ UNCHANGED <<products, orders, active_payment_checks, tasks, user_carts,
                       admin_users, tokens, now>>

\* the bodies of PUT /orders/{order_id} (schemas.OrderUpdate, exclude_unset)
OrderUpdateBodies == {[status |-> "completed"], [payment_status |-> "refunded"]}

\* admin_api.admin_update_order with crud.update_order
admin_update_order(cred, order_id, update_data) ==
    \E o \in get_current_admin(cred) :
        /\ IF o.code # 200
           THEN /\ resp' = Refusal("admin_update_order", cred, order_id, o)
                /\ orders' = orders
           ELSE IF order_id \notin 1..Len(orders)
           THEN /\ resp' = Response("admin_update_order", cred, order_id, 404,
                                    "Order not found", None, None, None, None, FALSE)
                /\ orders' = orders
           ELSE /\ orders' = update_order(orders, order_id, OrderUpdate(update_data))
                /\ resp' = Response("admin_update_order", cred, order_id, 200, "ok",
                                    None, None, None,
                                    update_order(orders, order_id,
                                                 OrderUpdate(update_data))[order_id],
                                    TRUE)
        /\ UNCHANGED <<products, active_payment_checks, tasks, user_carts, admin_users,
                       tokens, now>>

\* main.get_dashboard_stats (GET /api/v1/admin/dashboard/stats): no
\* credential is asked for; the raw SQL groups by order_status, which is no
\* column of the orders table, and "except Exception" answers 500 with str(e)
main_get_dashboard_stats(cred) ==
    /\ resp' = IF "order_status" \notin OrderColumns
               THEN Response("get_dashboard_stats", cred, None, 500,
                             "Failed to get dashboard stats: ",
                             ExcNoSuchColumn, ExcNoSuchColumn, ExcNoSuchColumn, None, FALSE)
               ELSE Response("get_dashboard_stats", cred, None, 200, "ok", None, None, None,
                             [total_orders |-> Len(orders)], FALSE)
    /\ UNCHANGED <<products, orders, active_payment_checks, tasks, user_carts, admin_users,
                   tokens, now>>

(***************************************************************************)
(* Payment endpoints and the background simulator.                         *)
(***************************************************************************)
\* main.generate_khqr_payment: schedules a simulator run for whatever
\* order_number the request names
generate_khqr_payment(cred, n) ==
    /\ BagCardinality(tasks) < MaxTasks
    /\ tasks' = add_task(n)
    /\ resp' = Response("generate_khqr_payment", cred, n, 200, "ok", None, None, None,
                        <<"demo", n>>, FALSE)
    /\ UNCHANGED <<products, orders, active_payment_checks, user_carts, admin_users, tokens, now>>

\* the payment_status main.get_payment_status reports for a stored order:
\* the in-memory entry's status whenever there is an entry
PolledStatus(os, checks, n) ==
    IF n \in DOMAIN checks THEN checks[n]
    ELSE get_order_by_number(os, n).payment_status

\* main.get_payment_status (GET /api/v1/khqr/status/{order_number}): the 404
\* is raised inside the try block, whose "except Exception" prints it and
\* answers 500 with str(e)
NotFoundInTry(op, cred, n, detail, logged) ==
    Response(op, cred, n, 500, detail, ExcHttp404, None, logged, None, FALSE)

get_payment_status(cred, n) ==
    /\ resp' = IF OrderIdOf(orders, n) = 0
               THEN NotFoundInTry("get_payment_status", cred, n,
                                  "Payment status check failed: ", ExcHttp404)
               ELSE Response("get_payment_status", cred, n, 200, "ok", None, None, None,
                             PolledStatus(orders, active_payment_checks, n), FALSE)
    /\ UNCHANGED <<products, orders, active_payment_checks, tasks, user_carts, admin_users,
                   tokens, now>>

\* "await crud.update_order_status(database, order_number, 'preparing')":
\* crud defines no update_order_status
update_order_status(os, n, status) ==
    IF OrderIdOf(os, n) = 0 THEN os
    ELSE [os EXCEPT ![OrderIdOf(os, n)] = [@ EXCEPT !.status = status]]

\* main.simulate_payment_paid: writes through the module-level connection
\* (each statement commits), then looks up crud.update_order_status
simulate_payment_paid(cred, n) ==
    /\ IF OrderIdOf(orders, n) = 0
       THEN /\ resp' = NotFoundInTry("simulate_payment_paid", cred, n,
                                     "Failed to simulate payment: ", None)
            /\ UNCHANGED <<products, orders, active_payment_checks>>
       ELSE /\ active_payment_checks' = SetCheckIfPresent(active_payment_checks, n, "paid")
            /\ IF "update_order_status" \in CrudFunctions
               THEN /\ orders' = update_order_status(
                                   update_order_payment_status(orders, n, "paid", "simulated_md5"),
                                   n, "preparing")
                    /\ resp' = Response("simulate_payment_paid", cred, n, 200,
                                        "Payment simulated successfully", None, None, None,
                                        "paid", TRUE)
               ELSE /\ orders' = update_order_payment_status(orders, n, "paid", "simulated_md5")
                    /\ resp' = Response("simulate_payment_paid", cred, n, 500,
                                        "Failed to simulate payment: ",
                                        ExcNoUpdateOrderStatus, ExcNoUpdateOrderStatus,
                                        None, None, TRUE)
    /\ UNCHANGED <<products, tasks, user_carts, admin_users, tokens, now>>

\* main.simulate_payment_failed
simulate_payment_failed(cred, n) ==
    /\ IF OrderIdOf(orders, n) = 0
       THEN /\ resp' = NotFoundInTry("simulate_payment_failed", cred, n,
                                     "Failed to simulate payment failure: ", None)
            /\ UNCHANGED <<products, orders, active_payment_checks>>
       ELSE /\ orders' = update_order_payment_status(orders, n, "failed", None)
            /\ active_payment_checks' = SetCheckIfPresent(active_payment_checks, n, "failed")
            /\ resp' = Response("simulate_payment_failed", cred, n, 200,
                                "Payment failure simulated successfully", None, None, None,
                                "failed", TRUE)
    /\ UNCHANGED <<products, tasks, user_carts, admin_users, tokens, now>>

\* main.check_payment_status_demo, first statement: the entry of the order
\* number is replaced by a fresh one with status 'processing'
SimStart(t) ==
    /\ BagIn(t, tasks) /\ t.pc = "queued"
    /\ active_payment_checks' = SetCheck(active_payment_checks, t.order_number, "processing")
    /\ tasks' = MoveTask(t, "sleeping")
    /\ UNCHANGED <<products, orders, user_carts, admin_users, tokens, now, resp>>

\* the sleep loop: iterations 1..6 write progress only, iterations 7..10
\* (progress >= 70) also write status 'verifying' into the entry
SimVerify(t) ==
    /\ BagIn(t, tasks) /\ t.pc = "sleeping"
    /\ active_payment_checks' = SetCheck(active_payment_checks, t.order_number, "verifying")
    /\ tasks' = MoveTask(t, "write")
    /\ UNCHANGED <<products, orders, user_carts, admin_users, tokens, now, resp>>

\* after the loop: one crud.update_order_payment_status(.., "paid",
\* "demo_md5_hash"); the entry becomes 'paid' when a row came back and
\* 'failed' when none did; then crud.update_order_status is looked up, and
\* the AttributeError ends the task
SimWrite(t) ==
    /\ BagIn(t, tasks) /\ t.pc = "write"
    /\ tasks' = MoveTask(t, "done")
    /\ IF OrderIdOf(orders, t.order_number) = 0
       THEN /\ active_payment_checks' = SetCheck(active_payment_checks, t.order_number, "failed")
            /\ orders' = orders
       ELSE /\ active_payment_checks' = SetCheck(active_payment_checks, t.order_number, "paid")
            /\ orders' = IF "update_order_status" \in CrudFunctions
                         THEN update_order_status(
                                update_order_payment_status(orders, t.order_number,
                                                            "paid", "demo_md5_hash"),
                                t.order_number, "preparing")
                         ELSE update_order_payment_status(orders, t.order_number,
                                                          "paid", "demo_md5_hash")
    /\ UNCHANGED <<products, user_carts, admin_users, tokens, now, resp>>

\* the same point of the run when the store raises inside
\* crud.update_order_payment_status (db.fetch_one / db.execute): nothing in
\* check_payment_status_demo catches it, so the task ends with the entry and
\* the rows as they were
SimWriteRaises(t) ==
    /\ BagIn(t, tasks) /\ t.pc = "write"
    /\ tasks' = MoveTask(t, "done")
    /\ UNCHANGED <<products, orders, active_payment_checks, user_carts, admin_users,
                   tokens, now, resp>>

(***************************************************************************)
(* Login and the admin payment endpoints.                                  *)
(***************************************************************************)
\* admin_dict.pop('hashed_password', None)
WithoutHash(a) == [id |-> a.id, email |-> a.email, role |-> a.role,
                   is_active |-> a.is_active]

\* the status crud.authenticate_admin raises for an inactive account
InactiveLoginStatus == 401

\* crud.authenticate_admin: the status and detail of the HTTPException it
\* raises, 200 when it returns the admin
authenticate_admin(as, email, password) ==
    IF AdminsByEmail(as, email) = {}
    THEN [code |-> 401, detail |-> "Incorrect email or password"]
    ELSE IF ~get_admin_by_email(as, email).is_active
    THEN [code |-> InactiveLoginStatus, detail |-> "Admin account is inactive"]
    ELSE IF verify_password(password, get_admin_by_email(as, email).hashed_password)
    THEN [code |-> 200, detail |-> "ok"]
    ELSE [code |-> 401, detail |-> "Incorrect email or password"]

\* admin_api.admin_login (POST /login): the token's subject is the email
admin_login(email, password) ==
    /\ IF authenticate_admin(admin_users, email, password).code = 200
       THEN /\ IssuedToken(get_admin_by_email(admin_users, email), now) \in tokens
               \/ Cardinality(tokens) < MaxTokens
            /\ tokens' = tokens \cup
                            {IssuedToken(get_admin_by_email(admin_users, email), now)}
            /\ resp' = Response("admin_login", NoCredentials, <<email, password>>, 200, "ok",
                                None, None, None,
                                [access_token |->
                                    IssuedToken(get_admin_by_email(admin_users, email), now),
                                 admin |-> WithoutHash(get_admin_by_email(admin_users, email))],
                                FALSE)
       ELSE /\ tokens' = tokens
            /\ resp' = Response("admin_login", NoCredentials, <<email, password>>,
                                authenticate_admin(admin_users, email, password).code,
                                authenticate_admin(admin_users, email, password).detail,
                                None, None, None, None, FALSE)
    /\ UNCHANGED <<products, orders, active_payment_checks, tasks, user_carts, admin_users, now>>

\* admin_api.mark_order_as_paid: behind get_current_admin; the in-memory
\* entry is not touched
mark_order_as_paid(cred, n, payment_method) ==
    \E o \in get_current_admin(cred) :
        /\ IF o.code # 200
           THEN /\ resp' = Refusal("mark_order_as_paid", cred, n, o)
                /\ orders' = orders
           ELSE IF OrderIdOf(orders, n) = 0
           THEN /\ resp' = Response("mark_order_as_paid", cred, n, 404, "Order not found",
                                    None, None, None, None, FALSE)
                /\ orders' = orders
           ELSE /\ orders' = [update_order_payment_status(orders, n, "paid", None)
                                EXCEPT ![OrderIdOf(orders, n)].payment_method = payment_method]
                /\ resp' = Response("mark_order_as_paid", cred, n, 200, "Order marked as paid",
                                    None, None, None, None, TRUE)
        /\ UNCHANGED <<products, active_payment_checks, tasks, user_carts, admin_users, tokens, now>>

\* admin_api.mark_order_as_refunded
mark_order_as_refunded(cred, n) ==
    \E o \in get_current_admin(cred) :
        /\ IF o.code # 200
           THEN /\ resp' = Refusal("mark_order_as_refunded", cred, n, o)
                /\ orders' = orders
           ELSE IF OrderIdOf(orders, n) = 0
           THEN /\ resp' = Response("mark_order_as_refunded", cred, n, 404, "Order not found",
                                    None, None, None, None, FALSE)
                /\ orders' = orders
           ELSE /\ orders' = update_order_payment_status(orders, n, "refunded", None)
                /\ resp' = Response("mark_order_as_refunded", cred, n, 200,
                                    "Order marked as refunded", None, None, None, None, TRUE)
        /\ UNCHANGED <<products, active_payment_checks, tasks, user_carts, admin_users, tokens, now>>

(***************************************************************************)
(* Admin accounts: the endpoints of admin_api.py behind                    *)
(* get_current_admin / get_current_super_admin.                            *)
(* admin_api.py imports get_db from dependencies, which defines none; the  *)
(* handlers are modelled as their bodies are written.                      *)
(***************************************************************************)
\* models.AdminUser: email = Column(String(255), unique=True): a row whose
\* email another row (not row_id) holds is refused with IntegrityError
EmailUnique(as, email, row_id) == \A a \in as : a.email = email => a.id = row_id

\* the id the table gives the next row
NextAdminId(as) == Cardinality(as) + 1

\* crud.get_admin_user: the rows with that id (none or one)
AdminsById(as, admin_id) == {a \in as : a.id = admin_id}

get_admin_user(as, admin_id) == CHOOSE a \in as : a.id = admin_id

\* the row crud.create_admin_user inserts: is_active=True, the hashed password
NewAdminRow(row_id, admin) ==
    [id |-> row_id, email |-> admin.email,
     hashed_password |-> get_password_hash(admin.password),
     role |-> admin.role, is_active |-> TRUE]

\* the request bodies of POST /users/ (schemas.AdminUserCreate)
AdminCreateBodies ==
    {[email |-> "a@x.com", password |-> "secret1", role |-> "admin"],
     [email |-> "demo@gmail.com", password |-> "secret1", role |-> "admin"]}

\* the request bodies of PUT /users/{admin_id} (schemas.AdminUserUpdate with
\* exclude_unset=True: only the fields the body sets)
AdminUpdateBodies ==
    {[is_active |-> FALSE], [is_active |-> TRUE], [email |-> "admin@gmail.com"]}

\* bodies that take the seeded super admin's role, email or access away
DemotingUpdateBodies ==
    {[is_active |-> FALSE], [email |-> "root@x.com"], [role |-> "manager"]}

\* update(AdminUser).where(id == admin_id).values(**update_data)
UpdatedAdminRow(a, update_data) ==
    [id |-> a.id,
     email |-> IF "email" \in DOMAIN update_data THEN update_data.email ELSE a.email,
     hashed_password |-> a.hashed_password,
     role |-> IF "role" \in DOMAIN update_data THEN update_data.role ELSE a.role,
     is_active |-> IF "is_active" \in DOMAIN update_data
                   THEN update_data.is_active ELSE a.is_active]

\* the attributes a dict answers to (get_current_admin returns dict(record))
DictAttributes == {"get", "keys", "values", "items", "pop", "update"}

AdminIds == 1..MaxAdmins

\* admin_api.get_dashboard_stats: behind get_current_admin
admin_get_dashboard_stats(cred) ==
    \E o \in get_current_admin(cred) :
        /\ resp' = IF o.code # 200
                   THEN Refusal("admin_get_dashboard_stats", cred, None, o)
                   ELSE Response("admin_get_dashboard_stats", cred, None, 200, "ok",
                                 None, None, None, [total_orders |-> Len(orders)], FALSE)
        /\ UNCHANGED <<products, orders, active_payment_checks, tasks, user_carts, admin_users,
                       tokens, now>>

\* the fields of schemas.AdminUser (AdminResponse) that the rows of the model
\* carry: FastAPI sends only the response_model's fields of a returned dict
AdminUserFields == {"id", "email", "role", "is_active"}

response_model(value, fields) == [f \in DOMAIN value \cap fields |-> value[f]]

\* admin_api.read_admin_me (GET /me, response_model=schemas.AdminUser):
\* returns the dict get_current_admin handed it
read_admin_me(cred) ==
    \E o \in get_current_admin(cred) :
        /\ resp' = IF o.code # 200
                   THEN Refusal("read_admin_me", cred, None, o)
                   ELSE Response("read_admin_me", cred, None, 200, "ok", None, None, None,
                                 response_model(o.admin, AdminUserFields), FALSE)
        /\ UNCHANGED <<products, orders, active_payment_checks, tasks, user_carts, admin_users,
                       tokens, now>>

\* admin_api.create_admin_user up to the first await of the insert: the
\* dependency, then crud.create_admin_user's look-up by email (400 when a
\* row has it); the request is then suspended with its insert still to run
create_admin_user(cred, admin) ==
    \E o \in get_current_super_admin(cred) :
        /\ IF o.code # 200
           THEN /\ resp' = Refusal("create_admin_user", cred, admin.email, o)
                /\ tasks' = tasks
           ELSE IF AdminsByEmail(admin_users, admin.email) # {}
           THEN /\ resp' = Response("create_admin_user", cred, admin.email, 400,
                                    "Admin with this email already exists",
                                    None, None, None, None, FALSE)
                /\ tasks' = tasks
           ELSE /\ BagCardinality(tasks) < MaxTasks
                /\ tasks' = tasks (+) SetToBag({[admin |-> admin, cred |-> cred,
                                                 pc |-> "insert"]})
                /\ resp' = resp
        /\ UNCHANGED <<products, orders, active_payment_checks, user_carts, admin_users,
                       tokens, now>>

\* the rest of crud.create_admin_user: the insert inside "try", whose
\* "except Exception" answers 500 with str(e)
create_admin_user_insert(t) ==
    /\ BagIn(t, tasks) /\ t.pc = "insert"
    /\ tasks' = tasks (-) SetToBag({t})
    /\ IF EmailUnique(admin_users, t.admin.email, 0)
       THEN /\ admin_users' = admin_users \cup
                                {NewAdminRow(NextAdminId(admin_users), t.admin)}
            /\ resp' = Response("create_admin_user", t.cred, t.admin.email, 200, "ok",
                                None, None, None,
                                WithoutHash(NewAdminRow(NextAdminId(admin_users), t.admin)),
                                TRUE)
       ELSE /\ admin_users' = admin_users
            /\ resp' = Response("create_admin_user", t.cred, t.admin.email, 500,
                                "Failed to create admin user: ",
                                ExcIntegrityEmail, ExcIntegrityEmail, None, None, FALSE)
    /\ UNCHANGED <<products, orders, active_payment_checks, user_carts, tokens, now>>

\* admin_api.read_admin_users
read_admin_users(cred) ==
    \E o \in get_current_super_admin(cred) :
        /\ resp' = IF o.code # 200
                   THEN Refusal("read_admin_users", cred, None, o)
                   ELSE Response("read_admin_users", cred, None, 200, "ok", None, None,
                                 None, {WithoutHash(a) : a \in admin_users}, FALSE)
        /\ UNCHANGED <<products, orders, active_payment_checks, tasks, user_carts, admin_users,
                       tokens, now>>

\* admin_api.read_admin_user
read_admin_user(cred, admin_id) ==
    \E o \in get_current_super_admin(cred) :
        /\ resp' = IF o.code # 200
                   THEN Refusal("read_admin_user", cred, admin_id, o)
                   ELSE IF AdminsById(admin_users, admin_id) = {}
                   THEN Response("read_admin_user", cred, admin_id, 404,
                                 "Admin user not found", None, None, None, None, FALSE)
                   ELSE Response("read_admin_user", cred, admin_id, 200, "ok", None, None,
                                 None, WithoutHash(get_admin_user(admin_users, admin_id)),
                                 FALSE)
        /\ UNCHANGED <<products, orders, active_payment_checks, tasks, user_carts, admin_users,
                       tokens, now>>

\* admin_api.update_admin_user with crud.update_admin_user: an email another
\* row holds raises IntegrityError, which nothing catches before the global
\* handler
update_admin_user(cred, admin_id, update_data) ==
    \E o \in get_current_super_admin(cred) :
        /\ IF o.code # 200
           THEN /\ resp' = Refusal("update_admin_user", cred, admin_id, o)
                /\ admin_users' = admin_users
           ELSE IF AdminsById(admin_users, admin_id) = {}
           THEN /\ resp' = Response("update_admin_user", cred, admin_id, 404,
                                    "Admin user not found", None, None, None, None, FALSE)
                /\ admin_users' = admin_users
           ELSE IF ~EmailUnique(admin_users,
                                UpdatedAdminRow(get_admin_user(admin_users, admin_id),
                                                update_data).email, admin_id)
           THEN /\ resp' = global_exception_handler("update_admin_user", cred, admin_id,
                                                    ExcIntegrityEmail, FALSE)
                /\ admin_users' = admin_users
           ELSE /\ admin_users' =
                     (admin_users \ AdminsById(admin_users, admin_id)) \cup
                     {UpdatedAdminRow(get_admin_user(admin_users, admin_id), update_data)}
                /\ resp' = Response("update_admin_user", cred, admin_id, 200, "ok",
                                    None, None, None,
                                    WithoutHash(UpdatedAdminRow(
                                        get_admin_user(admin_users, admin_id), update_data)),
                                    TRUE)
        /\ UNCHANGED <<products, orders, active_payment_checks, tasks, user_carts, tokens, now>>

\* admin_api.delete_admin_user: "if current_admin.id == admin_id" reads an
\* attribute of the dict the dependency returned; the AttributeError reaches
\* the global handler before crud.delete_admin_user is called
delete_admin_user(cred, admin_id) ==
    \E o \in get_current_super_admin(cred) :
        /\ IF o.code # 200
           THEN /\ resp' = Refusal("delete_admin_user", cred, admin_id, o)
                /\ admin_users' = admin_users
           ELSE IF "id" \notin DictAttributes
           THEN /\ resp' = global_exception_handler("delete_admin_user", cred, admin_id,
                                                    ExcDictId, FALSE)
                /\ admin_users' = admin_users
           ELSE IF o.admin.id = admin_id
           THEN /\ resp' = Response("delete_admin_user", cred, admin_id, 400,
                                    "Cannot delete your own account",
                                    None, None, None, None, FALSE)
                /\ admin_users' = admin_users
           ELSE IF AdminsById(admin_users, admin_id) = {}
           THEN /\ resp' = Response("delete_admin_user", cred, admin_id, 404,
                                    "Admin user not found", None, None, None, None, FALSE)
                /\ admin_users' = admin_users
           ELSE /\ admin_users' = admin_users \ AdminsById(admin_users, admin_id)
                /\ resp' = Response("delete_admin_user", cred, admin_id, 200,
                                    "Admin user deleted successfully",
                                    None, None, None, None, TRUE)
        /\ UNCHANGED <<products, orders, active_payment_checks, tasks, user_carts, tokens, now>>

\* crud.create_admin_user as create_sample_data calls it: the row is inserted
\* only when no row has the email
SeedAdmin(as, admin) ==
    IF AdminsByEmail(as, admin.email) # {} THEN as
    ELSE as \cup {NewAdminRow(NextAdminId(as), admin)}

DefaultAdminData ==
    [email |-> "admin@gmail.com", password |-> "11112222", role |-> "super_admin"]
DemoAdminData ==
    [email |-> "demo@gmail.com", password |-> "demo1234", role |-> "manager"]

\* the process is restarted: the module-level maps and the running
\* coroutines are gone, the store and the issued tokens are as they were;
\* main.startup runs create_sample_data, which looks the two seeded
\* accounts up by email
startup ==
    /\ admin_users' = SeedAdmin(SeedAdmin(admin_users, DefaultAdminData), DemoAdminData)
    /\ active_payment_checks' = [n \in {} |-> None]
    /\ user_carts' = [s \in {} |-> <<>>]
    /\ tasks' = EmptyBag
    /\ resp' = Response("startup", NoCredentials, None, 200, "ok", None, None, None,
                        None, FALSE)
    /\ UNCHANGED <<products, orders, tokens, now>>

\* a day passes
Tick ==
    /\ now < MaxClock
    /\ now' = now + 1
    /\ UNCHANGED <<products, orders, active_payment_checks, tasks, user_carts, admin_users,
                   tokens, resp>>

(***************************************************************************)
(* Products: crud.get_products and the listings and admin product routes.  *)
(***************************************************************************)
IsAvailable(product) == product.is_available

\* crud.get_products: where(CoffeeProduct.is_available == True), then the
\* window
get_products(ps, skip, limit) == Window(SelectSeq(ps, IsAvailable), skip, limit)

\* crud.get_product: the row's position, 0 when there is none
ProductIndexOf(ps, product_id) ==
    IF \E i \in 1..Len(ps) : ps[i].id = product_id
    THEN CHOOSE i \in 1..Len(ps) : ps[i].id = product_id
    ELSE 0

\* the id the table gives the next row
NextProductId(ps) == IF ps = <<>> THEN 1 ELSE ps[Len(ps)].id + 1

RECURSIVE WithoutProduct(_, _)
WithoutProduct(ps, product_id) ==
    IF ps = <<>> THEN <<>>
    ELSE IF Head(ps).id = product_id THEN WithoutProduct(Tail(ps), product_id)
    ELSE <<Head(ps)>> \o WithoutProduct(Tail(ps), product_id)

ExcDictCategory == "'dict' object has no attribute 'category'"
ExcDictIsAvailable == "'dict' object has no attribute 'is_available'"

ProductIds == 1..MaxProducts

\* main.read_products (GET /api/v1/products/): the category and
\* available_only filters read attributes of the dicts crud.get_products
\* returned
read_products(cred, skip, limit, category, available_only) ==
    /\ resp' = IF category # None /\ get_products(products, skip, limit) # <<>>
               THEN global_exception_handler("read_products", cred, <<skip, limit>>,
                                             ExcDictCategory, FALSE)
               ELSE IF available_only /\ get_products(products, skip, limit) # <<>>
               THEN global_exception_handler("read_products", cred, <<skip, limit>>,
                                             ExcDictIsAvailable, FALSE)
               ELSE Response("read_products", cred, <<skip, limit>>, 200, "ok", None, None,
                             None, get_products(products, skip, limit), FALSE)
    /\ UNCHANGED <<products, orders, active_payment_checks, tasks, user_carts,
                   admin_users, tokens, now>>

\* admin_api.admin_read_products: behind get_current_admin; the same
\* crud.get_products
admin_read_products(cred, skip, limit) ==
    \E o \in get_current_admin(cred) :
        /\ resp' = IF o.code # 200
                   THEN Refusal("admin_read_products", cred, <<skip, limit>>, o)
                   ELSE Response("admin_read_products", cred, <<skip, limit>>, 200, "ok",
                                 None, None, None, get_products(products, skip, limit),
                                 FALSE)
        /\ UNCHANGED <<products, orders, active_payment_checks, tasks, user_carts,
                       admin_users, tokens, now>>

\* admin_api.admin_create_product with crud.create_product
admin_create_product(cred, is_available) ==
    \E o \in get_current_admin(cred) :
        /\ IF o.code # 200
           THEN /\ resp' = Refusal("admin_create_product", cred, None, o)
                /\ products' = products
           ELSE /\ Len(products) < MaxProducts
                /\ NextProductId(products) \in ProductIds
                /\ products' = Append(products,
                                      ProductRow(NextProductId(products), is_available))
                /\ resp' = Response("admin_create_product", cred, None, 200, "ok", None,
                                    None, None,
                                    ProductRow(NextProductId(products), is_available), TRUE)
        /\ UNCHANGED <<orders, active_payment_checks, tasks, user_carts, admin_users,
                       tokens, now>>

\* admin_api.admin_update_product with crud.update_product
admin_update_product(cred, product_id, is_available) ==
    \E o \in get_current_admin(cred) :
        /\ IF o.code # 200
           THEN /\ resp' = Refusal("admin_update_product", cred, product_id, o)
                /\ products' = products
           ELSE IF ProductIndexOf(products, product_id) = 0
           THEN /\ resp' = Response("admin_update_product", cred, product_id, 404,
                                    "Product not found", None, None, None, None, FALSE)
                /\ products' = products
           ELSE /\ products' = [products EXCEPT ![ProductIndexOf(products, product_id)] =
                                   ProductRow(product_id, is_available)]
                /\ resp' = Response("admin_update_product", cred, product_id, 200, "ok",
                                    None, None, None,
                                    ProductRow(product_id, is_available), TRUE)
        /\ UNCHANGED <<orders, active_payment_checks, tasks, user_carts, admin_users,
                       tokens, now>>

\* admin_api.admin_delete_product with crud.delete_product
admin_delete_product(cred, product_id) ==
    \E o \in get_current_admin(cred) :
        /\ IF o.code # 200
           THEN /\ resp' = Refusal("admin_delete_product", cred, product_id, o)
                /\ products' = products
           ELSE IF ProductIndexOf(products, product_id) = 0
           THEN /\ resp' = Response("admin_delete_product", cred, product_id, 404,
                                    "Product not found", None, None, None, None, FALSE)
                /\ products' = products
           ELSE /\ products' = WithoutProduct(products, product_id)
                /\ resp' = Response("admin_delete_product", cred, product_id, 200,
                                    "Product deleted successfully", None, None, None,
                                    None, TRUE)
        /\ UNCHANGED <<orders, active_payment_checks, tasks, user_carts, admin_users,
                       tokens, now>>

(***************************************************************************)
(* Spec: payments and the simulator, on the order numbers the requests     *)
(* name.                                                                   *)
(***************************************************************************)
Next ==
    \/ \E s \in Sessions, n \in GeneratedOrderNumbers :
          main_create_order(NoCredentials, s, n)
    \/ \E n \in NamedOrderNumbers : read_order(NoCredentials, n)
    \/ \E st \in {None, "pending"} : read_orders(NoCredentials, 0, 2, st)
    \/ \E n \in NamedOrderNumbers : generate_khqr_payment(NoCredentials, n)
    \/ \E n \in NamedOrderNumbers : get_payment_status(NoCredentials, n)
    \/ \E n \in NamedOrderNumbers : simulate_payment_paid(NoCredentials, n)
    \/ \E n \in NamedOrderNumbers : simulate_payment_failed(NoCredentials, n)
    \/ \E c \in Credentials, n \in NamedOrderNumbers : mark_order_as_paid(c, n, "cash")
    \/ \E c \in Credentials, n \in NamedOrderNumbers : mark_order_as_refunded(c, n)
    \/ admin_login("admin@gmail.com", "11112222")
    \/ \E t \in BagToSet(tasks) : SimStart(t)
    \/ \E t \in BagToSet(tasks) : SimVerify(t)
    \/ \E t \in BagToSet(tasks) : SimWrite(t)
    \/ \E t \in BagToSet(tasks) : SimWriteRaises(t)

Spec == Init /\ [][Next]_vars

(***************************************************************************)
(* SpecOrders: order creation and the public order reads.                  *)
(***************************************************************************)
NextOrders ==
    \/ admin_login("demo@gmail.com", "demo1234")
    \/ \E n \in GeneratedOrderNumbers : crud_create_order(n)
    \/ \E s \in Sessions, n \in GeneratedOrderNumbers :
          main_create_order(NoCredentials, s, n)
    \/ \E n \in GeneratedOrderNumbers : frontend_checkout(NoCredentials, n)
    \/ \E n \in OrderNumbers : read_order(NoCredentials, n)
    \/ \E k \in Skips, l \in Limits, st \in ListingStatuses :
          read_orders(NoCredentials, k, l, st)
    \/ \E c \in Credentials, k \in Skips, l \in Limits, st \in ListingStatuses :
          admin_read_orders(c, k, l, st)
    \/ \E c \in Credentials, i \in 1..(MaxSuffix + 1) :
          admin_update_order(c, i, [status |-> "completed"])
    \/ main_get_dashboard_stats(NoCredentials)

SpecOrders == Init /\ [][NextOrders]_vars

(***************************************************************************)
(* SpecAdmin: logins, tokens and the admin-account endpoints.              *)
(***************************************************************************)
LoginEmails == {"admin@gmail.com", "demo@gmail.com", "a@x.com", "nobody@x.com"}
LoginPasswords == {"11112222", "demo1234", "secret1"}

NextAdmin ==
    \/ \E email \in LoginEmails, password \in LoginPasswords : admin_login(email, password)
    \/ \E c \in Credentials : admin_get_dashboard_stats(c)
    \/ \E c \in Credentials : read_admin_me(c)
    \/ \E c \in Credentials, admin \in AdminCreateBodies : create_admin_user(c, admin)
    \/ \E t \in BagToSet(tasks) : create_admin_user_insert(t)
    \/ \E c \in Credentials : read_admin_users(c)
    \/ \E c \in Credentials, i \in AdminIds : read_admin_user(c, i)
    \/ \E c \in Credentials, i \in AdminIds, u \in AdminUpdateBodies :
          update_admin_user(c, i, u)
    \/ \E c \in Credentials, i \in AdminIds : delete_admin_user(c, i)
    \/ Tick

SpecAdmin == Init /\ [][NextAdmin]_vars

(***************************************************************************)
(* SpecProducts: the product table and its listings.                       *)
(***************************************************************************)
NextProducts ==
    \/ admin_login("demo@gmail.com", "demo1234")
    \/ \E k \in Skips, l \in Limits, c \in {None, "Hot Coffee"}, a \in BOOLEAN :
          read_products(NoCredentials, k, l, c, a)
    \/ \E c \in Credentials, k \in Skips, l \in Limits : admin_read_products(c, k, l)
    \/ \E c \in Credentials, a \in BOOLEAN : admin_create_product(c, a)
    \/ \E c \in Credentials, i \in ProductIds, a \in BOOLEAN :
          admin_update_product(c, i, a)
    \/ \E c \in Credentials, i \in ProductIds : admin_delete_product(c, i)

SpecProducts == Init /\ [][NextProducts]_vars

(***************************************************************************)
(* SpecHistory: orders under every operation that writes an order row or   *)
(* a product row.                                                          *)
(***************************************************************************)
\* bodies of PUT /orders/{order_id}, one of them with fields OrderUpdate
\* does not have
HistoryUpdateBodies ==
    OrderUpdateBodies \cup
       {[admin_notes |-> "called", total_amount |-> 0, items |-> <<>>,
         customer_name |-> "x"]}

\* the order numbers the requests of SpecHistory name: the seeded order
\* and the one create_order draws
HistoryOrderNumbers == {SeededOrderNumber, OrderNumberOf(0, 1)}

NextHistory ==
    \/ admin_login("admin@gmail.com", "11112222")
    \/ crud_create_order(OrderNumberOf(0, 1))
    \/ \E c \in tokens, i \in 1..2, b \in HistoryUpdateBodies :
          admin_update_order(c, i, b)
    \/ \E c \in tokens, n \in HistoryOrderNumbers : mark_order_as_paid(c, n, "cash")
    \/ \E c \in tokens, n \in HistoryOrderNumbers : mark_order_as_refunded(c, n)
    \/ \E n \in HistoryOrderNumbers : simulate_payment_paid(NoCredentials, n)
    \/ \E n \in HistoryOrderNumbers : simulate_payment_failed(NoCredentials, n)
    \/ \E c \in tokens : admin_update_product(c, 1, FALSE)
    \/ \E c \in tokens : admin_delete_product(c, 1)

SpecHistory == Init /\ [][NextHistory]_vars

(***************************************************************************)
(* SpecTokens: issued tokens while accounts are created and their emails   *)
(* and roles rewritten.                                                    *)
(***************************************************************************)
\* bodies of PUT /users/{admin_id} that move an email or a role
RenamingUpdateBodies ==
    {[email |-> "old@x.com"], [email |-> "demo@gmail.com"], [role |-> "super_admin"],
     [role |-> "manager"]}

NextTokens ==
    \/ admin_login("admin@gmail.com", "11112222")
    \/ admin_login("demo@gmail.com", "demo1234")
    \/ \E c \in tokens, a \in AdminCreateBodies : create_admin_user(c, a)
    \/ \E t \in BagToSet(tasks) : create_admin_user_insert(t)
    \/ \E c \in tokens, i \in AdminIds, u \in RenamingUpdateBodies :
          update_admin_user(c, i, u)
    \/ \E c \in tokens, i \in AdminIds : delete_admin_user(c, i)
    \/ \E c \in tokens : read_admin_me(c)
    \/ \E c \in tokens : read_admin_users(c)

SpecTokens == Init /\ [][NextTokens]_vars

(***************************************************************************)
(* SpecCart: session carts and the order submissions.                      *)
(***************************************************************************)
NextCart ==
    \/ \E s \in Sessions : get_session_cart(NoCredentials, s)
    \/ \E s \in Sessions, item \in CartItemBodies :
          add_to_session_cart(NoCredentials, s, item)
    \/ \E s \in Sessions, n \in GeneratedOrderNumbers :
          main_create_order(NoCredentials, s, n)
    \/ \E n \in GeneratedOrderNumbers : frontend_checkout(NoCredentials, n)

SpecCart == Init /\ [][NextCart]_vars

(***************************************************************************)
(* SpecCartOps: every operation on the session carts.                      *)
(***************************************************************************)
\* a cart body: product_id 0 stands for a missing product_id; the quantity
\* is whatever the client sent
CartBody(product_id, quantity) ==
    [product_id |-> product_id, name |-> "Latte", price |-> 3, quantity |-> quantity]

\* the bodies of POST /cart/session/{session_id}/add
CartOpBodies == {CartBody(p, q) : p \in 0..2, q \in 0..1}

\* the lists POST /cart/session/{session_id}/sync is sent
SyncBodies ==
    {<<>>, <<CartBody(1, 1)>>, <<CartBody(0, 1), CartBody(2, 1)>>,
     <<CartBody(1, 1), CartBody(1, 1)>>}

CartItemIds == 1..3

NextCartOps ==
    \/ \E s \in Sessions : get_session_cart(NoCredentials, s)
    \/ \E s \in Sessions, item \in CartOpBodies :
          add_to_session_cart(NoCredentials, s, item)
    \/ \E s \in Sessions, i \in CartItemIds, q \in UpdateQuantities :
          update_cart_item_quantity(NoCredentials, s, i, q)
    \/ \E s \in Sessions, i \in CartItemIds : remove_from_session_cart(NoCredentials, s, i)
    \/ \E s \in Sessions : clear_session_cart(NoCredentials, s)
    \/ \E s \in Sessions, items \in SyncBodies : sync_session_cart(NoCredentials, s, items)

SpecCartOps == Init /\ [][NextCartOps]_vars

(***************************************************************************)
(* SpecStartup: restarts of the process after admin updates.               *)
(***************************************************************************)
NextStartup ==
    \/ \E email \in {"admin@gmail.com", "root@x.com"}, password \in LoginPasswords :
          admin_login(email, password)
    \/ \E c \in Credentials, i \in AdminIds, u \in DemotingUpdateBodies :
          update_admin_user(c, i, u)
    \/ \E c \in Credentials : read_admin_users(c)
    \/ startup

SpecStartup == Init /\ [][NextStartup]_vars

(***************************************************************************)
(* Properties.                                                             *)
(***************************************************************************)
\* C1: in every reachable state no two stored orders share an order_number,
\* whatever the order-creating operations drew and in whatever order they ran
C1_OrderNumbersUnique ==
    \A i, j \in 1..Len(orders) :
        i # j => orders[i].order_number # orders[j].order_number

\* every number of the day is stored, and a draw that repeated one was refused
C1_AllDrawnAndRepeatRefused ==
    /\ Len(orders) = MaxSuffix + 1
    /\ resp.op = "crud_create_order"
    /\ resp.code = 500

\* C2: the response of POST /orders carries the newly generated order_number
\* with status and payment_status "pending", the order is stored, and a
\* simulator run is queued for that order_number
C2_PostOrdersAnswersPendingOrder ==
    resp.op = "create_order" =>
        /\ resp.code = 200
        /\ resp.data.status = "pending"
        /\ resp.data.payment_status = "pending"
        /\ resp.arg \in StoredNumbers(orders)
        /\ BagIn(Task(resp.arg, "queued"), tasks)

\* C3: an order created through POST /orders has a simulator run alive for
\* it until the store holds it as "paid" and the poll answers "paid"
C3_PostedOrderGetsPaid ==
    resp.op = "create_order" =>
        /\ resp.code = 200
        /\ \/ \E t \in BagToSet(tasks) : t.order_number = resp.arg
           \/ /\ get_order_by_number(orders, resp.arg).payment_status = "paid"
              /\ PolledStatus(orders, active_payment_checks, resp.arg) = "paid"

ManagementOps == {"create_admin_user", "read_admin_users", "read_admin_user",
                  "update_admin_user", "delete_admin_user"}

\* the credential is a token the server issued, still unexpired, of an
\* admin row whose role is not super_admin
TokenOfNonSuperAdmin(cred) ==
    /\ cred \in tokens
    /\ now < cred.exp
    /\ AdminsByEmail(admin_users, cred.sub) # {}
    /\ get_admin_by_email(admin_users, cred.sub).role # "super_admin"

\* C4: an admin-account-management request made with a valid token of an
\* admin who is not super_admin is answered 403 and changes nothing; the
\* same token is answered 200 on dashboard-stats while the account is
\* active; a caller without a token is never sent the admin list
C4_NonSuperAdminForbidden ==
    /\ (resp.op \in ManagementOps /\ TokenOfNonSuperAdmin(resp.cred))
          => (resp.code = 403 /\ ~resp.changed)
    /\ (/\ resp.op = "admin_get_dashboard_stats"
        /\ TokenOfNonSuperAdmin(resp.cred)
        /\ get_admin_by_email(admin_users, resp.cred.sub).is_active)
          => resp.code = 200
    /\ (resp.op = "read_admin_users" /\ resp.cred = NoCredentials)
          => resp.code \in {401, 403}

\* the status POST /admin/login is to answer
LoginStatusStated(as, email, password) ==
    IF AdminsByEmail(as, email) = {} THEN 401
    ELSE IF ~get_admin_by_email(as, email).is_active THEN 403
    ELSE IF ~verify_password(password, get_admin_by_email(as, email).hashed_password)
    THEN 401
    ELSE 200

\* C5: a login is answered 401 when no admin has the email, 403 when the
\* account is inactive, 401 when the password does not match, and returns
\* the admin otherwise
C5_LoginStatus ==
    resp.op = "admin_login" =>
        resp.code = LoginStatusStated(admin_users, resp.arg[1], resp.arg[2])

\* C6: after a delete-admin request by an authenticated super admin, a
\* request for the admin's own id was answered 4xx and the row is kept; a
\* request for another id leaves no row with that id
C6_DeleteAdmin ==
    resp.op = "delete_admin_user" =>
        \A o \in get_current_super_admin(resp.cred) :
            o.code = 200 =>
                IF o.admin.id = resp.arg
                THEN resp.code \in 400..499 /\ o.admin \in admin_users
                ELSE AdminsById(admin_users, resp.arg) = {}

AdminOnlyOps == {"get_dashboard_stats", "read_orders", "simulate_payment_paid",
                 "simulate_payment_failed", "mark_order_as_paid",
                 "mark_order_as_refunded"}

\* C7: a request for dashboard statistics, the order list or a payment-status
\* update that carries no token is not served and changes no order
C7_AdminOnly ==
    (resp.op \in AdminOnlyOps /\ resp.cred = NoCredentials)
        => (resp.code # 200 /\ ~resp.changed)

OrderNumberOps == {"read_order", "get_payment_status", "simulate_payment_paid",
                   "simulate_payment_failed", "mark_order_as_paid",
                   "mark_order_as_refunded"}

\* the request passed the authentication its endpoint asks for
Authenticated(op, cred) ==
    op \in {"mark_order_as_paid", "mark_order_as_refunded"}
        => \E o \in get_current_admin(cred) : o.code = 200

\* C8: a request naming an order_number the store does not hold is answered
\* 404 and changes nothing
C8_UnknownOrderNotFound ==
    (/\ resp.op \in OrderNumberOps
     /\ Authenticated(resp.op, resp.cred)
     /\ OrderIdOf(orders, resp.arg) = 0)
        => (resp.code = 404 /\ ~resp.changed)

\* C9: a request that met an unexpected exception is answered 500 with a
\* body that carries no text of the exception, which is printed to the log
C9_GenericInternalError ==
    resp.raised # None =>
        (resp.code = 500 /\ resp.leak = None /\ resp.logged = resp.raised)

\* C10: a create-admin request that passed the role check and was refused
\* because a row already has the email is answered 409, also when an
\* interleaved request inserted the row first; no two rows share an email
C10_DuplicateEmailConflict ==
    /\ (/\ resp.op = "create_admin_user"
        /\ ~resp.changed
        /\ \E o \in get_current_super_admin(resp.cred) : o.code = 200
        /\ AdminsByEmail(admin_users, resp.arg) # {})
          => resp.code = 409
    /\ \A a, b \in admin_users : a.email = b.email => a = b

\* the admin operations whose 200 response carries one admin
OneAdminOps == {"create_admin_user", "read_admin_user", "update_admin_user",
                "read_admin_me"}

\* C11: no value an admin operation returns carries the password hash: not
\* the admin the current-admin lookup hands to the gated handlers (and to
\* /me), not the body of a login, create, update, read or list response
C11_NoPasswordHashReturned ==
    /\ \A c \in Credentials : \A o \in get_current_admin(c) :
          o.code = 200 => "hashed_password" \notin DOMAIN o.admin
    /\ (resp.op \in OneAdminOps /\ resp.code = 200)
          => "hashed_password" \notin DOMAIN resp.data
    /\ (resp.op = "read_admin_users" /\ resp.code = 200)
          => \A a \in resp.data : "hashed_password" \notin DOMAIN a
    /\ (resp.op = "admin_login" /\ resp.code = 200)
          => "hashed_password" \notin DOMAIN resp.data.admin

\* what is sent to the client carries no hash (the response_model of /me
\* drops it)
C11_ResponsesCarryNoHash ==
    /\ (resp.op \in OneAdminOps /\ resp.code = 200)
          => "hashed_password" \notin DOMAIN resp.data
    /\ (resp.op = "read_admin_users" /\ resp.code = 200)
          => \A a \in resp.data : "hashed_password" \notin DOMAIN a
    /\ (resp.op = "admin_login" /\ resp.code = 200)
          => "hashed_password" \notin DOMAIN resp.data.admin

\* C12: after an order submission with a valid body made for a session
\* (POST /orders, frontend checkout) the session's cart lists no items
C12_SubmissionEmptiesCart ==
    resp.op \in {"create_order", "frontend_checkout"} =>
        \A s \in Sessions : SessionCartItems(user_carts, s) = <<>>

\* C13: the public product listing is the window of the available products,
\* and the admin product listing is the same window of all products
C13_ProductListings ==
    /\ (resp.op = "read_products" /\ resp.code = 200)
          => resp.data = Window(SelectSeq(products, IsAvailable), resp.arg[1], resp.arg[2])
    /\ (resp.op = "admin_read_products" /\ resp.code = 200)
          => resp.data = Window(products, resp.arg[1], resp.arg[2])

\* the newest-first list of the orders matching the status filter
MatchingNewestFirst(os, status) ==
    IF status = None THEN Reverse(os) ELSE get_orders_by_status(os, status)

\* C14: an order listing (public, or admin with a token that is accepted)
\* answers with the orders at positions skip+1 .. skip+limit of the
\* newest-first list of the orders matching the status filter
C14_ListingIsPageOfFiltered ==
    (\/ resp.op = "read_orders"
     \/ /\ resp.op = "admin_read_orders"
        /\ \E o \in get_current_admin(resp.cred) : o.code = 200)
        => /\ resp.code = 200
           /\ resp.data = Window(MatchingNewestFirst(orders, resp.arg[3]),
                                 resp.arg[1], resp.arg[2])

\* C15: after a startup the table holds an admin whose role is super_admin,
\* and the default super-admin credentials log in
C15_SuperAdminAfterStartup ==
    resp.op = "startup" =>
        /\ \E a \in admin_users : a.role = "super_admin"
        /\ authenticate_admin(admin_users, "admin@gmail.com", "11112222").code = 200

Passwords == LoginPasswords \cup {"", "11112222 "}

\* the bodies the admin rows of the model are created from
AdminBodies == {DefaultAdminData, DemoAdminData} \cup AdminCreateBodies

\* C16: verify(q, hash(p)) succeeds exactly when q = p; an active account
\* created with password p authenticates with p and with no other password,
\* and a login that was answered 200 gave the account's password
C16_PasswordRoundTrip ==
    /\ \A pw, q \in Passwords :
          verify_password(q, get_password_hash(pw)) <=> (q = pw)
    /\ \A body \in AdminBodies, q \in Passwords : \A a \in admin_users :
          (/\ a.email = body.email
           /\ a.hashed_password = get_password_hash(body.password)
           /\ a.is_active)
             => (authenticate_admin(admin_users, a.email, q).code = 200
                    <=> q = body.password)
    /\ (resp.op = "admin_login" /\ resp.code = 200)
          => \E body \in AdminBodies :
                body.email = resp.arg[1] /\ body.password = resp.arg[2]

\* the admin created with a@x.com / secret1 has logged in with them
C16_CreatedAdminLoggedIn ==
    /\ resp.op = "admin_login"
    /\ resp.arg = <<"a@x.com", "secret1">>
    /\ resp.code = 200
    /\ \E a \in admin_users : a.email = "a@x.com" /\ a.id = 3

SimulatorStatuses == {"processing", "paid", "failed"}

\* C17: the in-memory simulator status of every order number is one of
\* processing, paid, failed, and a step changes it only from processing to
\* paid or from processing to failed (paid and failed are terminal)
C17_SimulatorStatusTransitions ==
    [][\A n \in DOMAIN active_payment_checks' :
          /\ active_payment_checks'[n] \in SimulatorStatuses
          /\ (/\ n \in DOMAIN active_payment_checks
              /\ active_payment_checks[n] # active_payment_checks'[n])
                => /\ active_payment_checks[n] = "processing"
                   /\ active_payment_checks'[n] \in {"paid", "failed"}]_vars

\* the step ends the run t at its write without the row of t's order having
\* taken the written values
WriteFailed(t) ==
    /\ BagIn(t, tasks) /\ t.pc = "write"
    /\ tasks' = MoveTask(t, "done")
    /\ \/ OrderIdOf(orders, t.order_number) = 0
       \/ orders' # update_order_payment_status(orders, t.order_number,
                                                "paid", "demo_md5_hash")

\* C18: a simulator run whose payment-status write does not succeed leaves
\* the in-memory status of its order number failed and changes no order row
C18_FailedWriteMarksFailed ==
    [][\A t \in BagToSet(tasks) :
          WriteFailed(t)
             => /\ t.order_number \in DOMAIN active_payment_checks'
                /\ active_payment_checks'[t.order_number] = "failed"
                /\ orders' = orders]_vars

\* a simulator run for order number n is scheduled or running
RunInProgress(n) == \E t \in BagToSet(tasks) : t.order_number = n

\* C19: for every stored order with no simulator run in progress, the
\* payment_status GET /khqr/status reports is the one stored for the order
C19_PollReportsStoredStatus ==
    \A n \in StoredNumbers(orders) :
       ~RunInProgress(n)
          => PolledStatus(orders, active_payment_checks, n)
                = get_order_by_number(orders, n).payment_status

\* the token is signed with SECRET_KEY and has not expired
ValidToken(cred) ==
    cred # NoCredentials /\ cred.key = SECRET_KEY /\ now < cred.exp

\* C20: get_current_admin lets a request through only with a valid token
\* whose subject is an existing active admin; a missing, invalid or expired
\* token and a token of a deleted admin are answered 401, and a valid token
\* of a deactivated admin is answered 403
C20_AdminGate ==
    \A cred \in Credentials : \A o \in get_current_admin(cred) :
       LET exists == ValidToken(cred) /\ AdminsByEmail(admin_users, cred.sub) # {}
           active == exists /\ get_admin_by_email(admin_users, cred.sub).is_active
       IN  /\ (o.code = 200) => active
           /\ ~exists => o.code = 401
           /\ (exists /\ ~active) => o.code = 403

\* the number of simulator runs for order number n in the bag ts that are
\* past their first statement and have not finished
RunningCount(ts, n) ==
    CopiesIn(Task(n, "sleeping"), ts) + CopiesIn(Task(n, "write"), ts)

\* C21: at most one simulator run at a time is updating the entry of an
\* order number, and no endpoint changes the entry of an order number while
\* a simulator run for it is in progress
C21_SingleWriterPerKey ==
    [][\A n \in NamedOrderNumbers :
          /\ RunningCount(tasks', n) <= 1
          /\ (/\ tasks' = tasks
              /\ RunningCount(tasks, n) >= 1
              /\ n \in DOMAIN active_payment_checks')
                => /\ n \in DOMAIN active_payment_checks
                   /\ active_payment_checks'[n] = active_payment_checks[n]]_vars

\* row new is row old with at most its payment fields written
OnlyPaymentFieldsDiffer(old, new) ==
    new = [old EXCEPT !.payment_status = new.payment_status,
                      !.khqr_md5 = new.khqr_md5,
                      !.payment_method = new.payment_method]

FrozenOrderFields == {"order_number", "customer_name", "items", "total_amount"}

\* C23: every step keeps every order row, with its order_number, customer
\* fields, items and total_amount as they were inserted; product updates
\* and deletions change no order row at all
C23_OrdersKeptAndFrozen ==
    [][/\ Len(orders') >= Len(orders)
       /\ \A i \in 1..Len(orders) : \A f \in FrozenOrderFields :
             orders'[i][f] = orders[i][f]
       /\ (products' # products) => (orders' = orders)]_vars

\* an order created by the service has had its status, payment fields and
\* admin_notes written and the product of its items deleted, and still
\* carries the items it was created with
C23_MutatedOrderKeepsItems ==
    /\ Len(orders) >= 2
    /\ orders[2].status = "completed"
    /\ orders[2].payment_status = "refunded"
    /\ orders[2].payment_method = "cash"
    /\ orders[2].admin_notes = "called"
    /\ ProductIndexOf(products, 1) = 0
    /\ orders[2].items = OrderItems
    /\ orders[2].total_amount = 3

\* C24: a simulator run that reaches its write when the stored
\* payment_status of its order is no longer pending leaves it as it is
C24_SimulatorPaysOnlyPending ==
    [][\A t \in BagToSet(tasks) :
          (/\ t.pc = "write"
           /\ tasks' = MoveTask(t, "done")
           /\ OrderIdOf(orders, t.order_number) # 0
           /\ get_order_by_number(orders, t.order_number).payment_status # "pending")
             => get_order_by_number(orders', t.order_number).payment_status
                   = get_order_by_number(orders, t.order_number).payment_status]_vars

\* C25: for an order whose stored payment_status is and stays paid, a poll
\* that answers paid is never followed by a poll that answers anything else
C25_PaidPollDoesNotRegress ==
    [][\A n \in StoredNumbers(orders) :
          (/\ PolledStatus(orders, active_payment_checks, n) = "paid"
           /\ get_order_by_number(orders, n).payment_status = "paid"
           /\ get_order_by_number(orders', n).payment_status = "paid")
             => PolledStatus(orders', active_payment_checks', n) = "paid"]_vars

\* C26: a token is accepted only as the account it was issued to, and the
\* super-admin check passes only on the role stored for that account now
C26_TokenBoundToAccount ==
    \A cred \in tokens :
       /\ \A o \in get_current_admin(cred) :
             o.code = 200 => o.admin.id = cred.issued_to
       /\ \A o \in get_current_super_admin(cred) :
             o.code = 200
                => /\ AdminsById(admin_users, cred.issued_to) # {}
                   /\ get_admin_user(admin_users, cred.issued_to).role = "super_admin"

\* C27: within one session cart the item ids are pairwise distinct
C27_CartItemIdsDistinct ==
    \A s \in DOMAIN user_carts :
       \A i, j \in 1..Len(user_carts[s]) :
          i # j => user_carts[s][i].id # user_carts[s][j].id

\* C28: a session cart holds at most one entry per product_id, and an add
\* that found the product in the cart appended nothing and left every
\* entry with item_total = quantity * price
C28_OneEntryPerProduct ==
    /\ \A s \in DOMAIN user_carts :
          \A i, j \in 1..Len(user_carts[s]) :
             i # j => user_carts[s][i].product_id # user_carts[s][j].product_id
    /\ (resp.op = "add_to_session_cart" /\ resp.detail = "quantity_updated")
          => \A i \in 1..Len(user_carts[resp.arg]) :
                user_carts[resp.arg][i].item_total
                   = user_carts[resp.arg][i].quantity * user_carts[resp.arg][i].price

\* C29: every item held in a session cart has quantity >= 1
C29_CartQuantitiesPositive ==
    \A s \in DOMAIN user_carts :
       \A i \in 1..Len(user_carts[s]) : user_carts[s][i].quantity >= 1

CartOps == {"add_to_session_cart", "update_cart_item_quantity",
            "remove_from_session_cart", "clear_session_cart"}

\* C30: a cart request answered 400 or 404 leaves the session-cart map, its
\* set of session keys included, as it was
C30_RejectedCartRequestChangesNothing ==
    [][(resp'.op \in CartOps /\ resp'.code \in {400, 404})
          => user_carts' = user_carts]_vars

====
